---- MODULE Spec2Model ----
(***************************************************************************)
(* SupabaseClient (src/odh/supabase.js): the request builder, the nine     *)
(* CRUD operations, the three auth operations and the session state (base  *)
(* URL, API key, headers) they share.  Every async operation is a call     *)
(* record that moves through its two suspension points: `await fetch(...)` *)
(* and `await response.json()`.                                            *)
(***************************************************************************)
EXTENDS Bags, FiniteSets, Integers, Sequences, TLC

VARIABLES
    supabaseUrl,   \* this.supabaseUrl
    supabaseKey,   \* this.supabaseKey
    headers,       \* this.headers
    calls,         \* bag of the async calls that are suspended at an await
    settled,       \* the promise settlement the last step delivered to a caller
    session,       \* history: token of the latest sign-in still in force
    lastToken,     \* history: token returned by the most recent successful signIn
    anonymous      \* history: a reset completed and no later-issued signIn succeeded

vars == <<supabaseUrl, supabaseKey, headers, calls, settled, session, lastToken, anonymous>>

(***************************************************************************)
(* Bounds and input domains                                                *)
(***************************************************************************)
\* Most calls that may be suspended at the same time in the concurrent model.
MaxInFlight == 2
\* Most entries of a Filter Set given to the request builder.
MaxFilters == 2

Urls == {"https://a.supabase.co", "https://b.supabase.co"}
Keys == {"anon-key-1", "anon-key-2"}
Tokens == {"token-A", "token-B"}
Tables == {"trips"}
NoToken == ""

(***************************************************************************)
(* JavaScript values.  Every value is a record of the same shape so that   *)
(* values of different JS types can sit in one set.                        *)
(***************************************************************************)
JsUndefined == [t |-> "undefined", n |-> 0, s |-> "", rows |-> <<>>]
JsNull == [t |-> "null", n |-> 0, s |-> "", rows |-> <<>>]
JsNumber(n) == [t |-> "number", n |-> n, s |-> "", rows |-> <<>>]
JsString(s) == [t |-> "string", n |-> 0, s |-> s, rows |-> <<>>]
\* a Record (one backend row), named by its content
JsObject(s) == [t |-> "object", n |-> 0, s |-> s, rows |-> <<>>]
\* an array of Records
JsArray(rows) == [t |-> "array", n |-> 0, s |-> "", rows |-> rows]
JsBoolean(b) == [t |-> "boolean", n |-> IF b THEN 1 ELSE 0, s |-> "", rows |-> <<>>]
\* a Filter Set object: rows holds its <<key, value>> entries in insertion order
JsFilters(entries) == [t |-> "object", n |-> 0, s |-> "", rows |-> entries]
\* the session object of an auth response; s is its access_token ("" when absent)
JsSession(tok) == [t |-> "session", n |-> 0, s |-> tok, rows |-> <<>>]
\* a thrown value: name is the error's class, s its message
JsError(name, msg) == [t |-> name, n |-> 0, s |-> msg, rows |-> <<>>]

\* ToBoolean, as used by every `if (x)` and `a || b` of the client
Truthy(v) ==
    CASE v.t = "undefined" -> FALSE
      [] v.t = "null" -> FALSE
      [] v.t = "number" -> v.n # 0
      [] v.t = "boolean" -> v.n = 1
      [] v.t = "string" -> v.s # ""
      [] OTHER -> TRUE

\* ToString, as applied by a template literal and by URLSearchParams.append
JsToString(v) ==
    CASE v.t = "number" -> ToString(v.n)
      [] v.t = "string" -> v.s
      [] v.t = "boolean" -> (IF v.n = 1 THEN "true" ELSE "false")
      [] v.t = "null" -> "null"
      [] v.t = "undefined" -> "undefined"
      [] OTHER -> "[object Object]"

\* application/x-www-form-urlencoded byte serialisation of one character:
\* letters, digits and * - . _ are kept, a space becomes +, the rest %XX
FormEncodeChar(c) ==
    CASE c = " " -> "+"
      [] c = "," -> "%2C"
      [] c = "=" -> "%3D"
      [] c = "&" -> "%26"
      [] c = "+" -> "%2B"
      [] c = "%" -> "%25"
      [] c = "?" -> "%3F"
      [] c = "/" -> "%2F"
      [] c = ":" -> "%3A"
      [] c = "@" -> "%40"
      [] c = "#" -> "%23"
      [] OTHER -> c

RECURSIVE FormEncode(_)
\* application/x-www-form-urlencoded serialisation of one name or value
FormEncode(s) ==
    IF s = "" THEN ""
    ELSE FormEncodeChar(SubSeq(s, 1, 1)) \o FormEncode(SubSeq(s, 2, Len(s)))

RECURSIVE ParamsToString(_)
\* URLSearchParams.prototype.toString: name=value pairs joined by &
ParamsToString(params) ==
    IF params = <<>> THEN ""
    ELSE LET p == Head(params)
             rest == ParamsToString(Tail(params))
         IN FormEncode(p[1]) \o "=" \o FormEncode(p[2])
              \o (IF rest = "" THEN "" ELSE "&" \o rest)

Digits == <<"0", "1", "2", "3", "4", "5", "6", "7", "8", "9">>
IsDigit(c) == \E d \in 1..10 : Digits[d] = c
DigitValue(c) == (CHOOSE d \in 1..10 : Digits[d] = c) - 1

RECURSIVE StringToNumber(_)
\* the number a string of digits denotes
StringToNumber(s) ==
    IF s = "" THEN 0
    ELSE 10 * StringToNumber(SubSeq(s, 1, Len(s) - 1)) + DigitValue(SubSeq(s, Len(s), Len(s)))

\* a property key that is an array index: a canonical numeric string
IsArrayIndex(key) ==
    /\ key # ""
    /\ Len(key) <= 9
    /\ \A i \in 1..Len(key) : IsDigit(SubSeq(key, i, i))
    /\ (Len(key) = 1 \/ SubSeq(key, 1, 1) # "0")

\* Object.entries: own properties in the order array-index keys ascending,
\* then the other keys in insertion order
ObjectEntries(entries) ==
    SortSeq(SelectSeq(entries, LAMBDA e : IsArrayIndex(e[1])),
            LAMBDA a, b : StringToNumber(a[1]) < StringToNumber(b[1]))
      \o SelectSeq(entries, LAMBDA e : ~IsArrayIndex(e[1]))

\* the value is appended as it is, without the eq. operator prefix
FilterParams_NoOperator(filters) ==
    LET entries == ObjectEntries(filters)
    IN [i \in 1..Len(entries) |-> <<entries[i][1], JsToString(entries[i][2])>>]

\* Object.entries(filters).forEach(([key, value]) => params.append(key, `eq.${value}`))
FilterParams(filters) ==
    LET entries == ObjectEntries(filters)
    IN [i \in 1..Len(entries) |-> <<entries[i][1], "eq." \o JsToString(entries[i][2])>>]

\* Query Options: each property is a JS value, undefined when the caller
\* leaves it out; column and direction are the properties of the order object.
NoOptions ==
    [filters |-> JsUndefined, select |-> JsUndefined,
     order |-> JsUndefined, column |-> JsUndefined, direction |-> JsUndefined,
     limit |-> JsUndefined, offset |-> JsUndefined]

\* an order parameter is injected also when the caller supplies no order
buildUrl_DefaultOrder(base, table, operation, options) ==
    LET url == base \o "/rest/v1/" \o table
        p1 == IF Truthy(options.filters) THEN FilterParams(options.filters.rows) ELSE <<>>
        p2 == IF Truthy(options.select)
              THEN <<<<"select", JsToString(options.select)>>>> ELSE <<>>
        orderBy == IF Truthy(options.column) THEN JsToString(options.column) ELSE "id"
        orderDir == IF Truthy(options.direction) THEN JsToString(options.direction) ELSE "asc"
        p3 == IF TRUE THEN <<<<"order", orderBy \o "." \o orderDir>>>> ELSE <<>>
        p4 == IF Truthy(options.limit)
              THEN <<<<"limit", JsToString(options.limit)>>>> ELSE <<>>
        p5 == IF Truthy(options.offset)
              THEN <<<<"offset", JsToString(options.offset)>>>> ELSE <<>>
        queryString == ParamsToString(p1 \o p2 \o p3 \o p4 \o p5)
    IN IF operation = "select" /\ queryString # "" THEN url \o "?" \o queryString ELSE url

\* limit is tested with `!== undefined` instead of truthiness: a null limit is sent
buildUrl_NotUndefined(base, table, operation, options) ==
    LET url == base \o "/rest/v1/" \o table
        p1 == IF Truthy(options.filters) THEN FilterParams(options.filters.rows) ELSE <<>>
        p2 == IF Truthy(options.select)
              THEN <<<<"select", JsToString(options.select)>>>> ELSE <<>>
        orderBy == IF Truthy(options.column) THEN JsToString(options.column) ELSE "id"
        orderDir == IF Truthy(options.direction) THEN JsToString(options.direction) ELSE "asc"
        p3 == IF Truthy(options.order) THEN <<<<"order", orderBy \o "." \o orderDir>>>> ELSE <<>>
        p4 == IF options.limit # JsUndefined
              THEN <<<<"limit", JsToString(options.limit)>>>> ELSE <<>>
        p5 == IF Truthy(options.offset)
              THEN <<<<"offset", JsToString(options.offset)>>>> ELSE <<>>
        queryString == ParamsToString(p1 \o p2 \o p3 \o p4 \o p5)
    IN IF operation = "select" /\ queryString # "" THEN url \o "?" \o queryString ELSE url

\* the blocks of lines 57-72 in another order: limit and offset are appended
\* before the ordering
buildUrl_OrderLast(base, table, operation, options) ==
    LET url == base \o "/rest/v1/" \o table
        p1 == IF Truthy(options.filters) THEN FilterParams(options.filters.rows) ELSE <<>>
        p2 == IF Truthy(options.select)
              THEN <<<<"select", JsToString(options.select)>>>> ELSE <<>>
        orderBy == IF Truthy(options.column) THEN JsToString(options.column) ELSE "id"
        orderDir == IF Truthy(options.direction) THEN JsToString(options.direction) ELSE "asc"
        p3 == IF Truthy(options.order) THEN <<<<"order", orderBy \o "." \o orderDir>>>> ELSE <<>>
        p4 == IF Truthy(options.limit)
              THEN <<<<"limit", JsToString(options.limit)>>>> ELSE <<>>
        p5 == IF Truthy(options.offset)
              THEN <<<<"offset", JsToString(options.offset)>>>> ELSE <<>>
        queryString == ParamsToString(p1 \o p2 \o p4 \o p5 \o p3)
    IN IF operation = "select" /\ queryString # "" THEN url \o "?" \o queryString ELSE url

buildUrl(base, table, operation, options) ==
    LET url == base \o "/rest/v1/" \o table
        p1 == IF Truthy(options.filters) THEN FilterParams(options.filters.rows) ELSE <<>>
        p2 == IF Truthy(options.select)
              THEN <<<<"select", JsToString(options.select)>>>> ELSE <<>>
        orderBy == IF Truthy(options.column) THEN JsToString(options.column) ELSE "id"
        orderDir == IF Truthy(options.direction) THEN JsToString(options.direction) ELSE "asc"
        p3 == IF Truthy(options.order) THEN <<<<"order", orderBy \o "." \o orderDir>>>> ELSE <<>>
        p4 == IF Truthy(options.limit)
              THEN <<<<"limit", JsToString(options.limit)>>>> ELSE <<>>
        p5 == IF Truthy(options.offset)
              THEN <<<<"offset", JsToString(options.offset)>>>> ELSE <<>>
        queryString == ParamsToString(p1 \o p2 \o p3 \o p4 \o p5)
    IN IF operation = "select" /\ queryString # "" THEN url \o "?" \o queryString ELSE url

RECURSIVE JoinParams(_)
\* the query string is put together by hand, `${key}=eq.${value}` joined by &,
\* without form-encoding
JoinParams(params) ==
    IF params = <<>> THEN ""
    ELSE Head(params)[1] \o "=" \o Head(params)[2]
           \o (IF Tail(params) = <<>> THEN "" ELSE "&" \o JoinParams(Tail(params)))

FilterUrl_NotEncoded(base, table, filters) ==
    LET url == base \o "/rest/v1/" \o table
        q == JoinParams(FilterParams(filters))
    IN IF q # "" THEN url \o "?" \o q ELSE url

\* the URL update() and delete() build inline from their Filter Set
FilterUrl(base, table, filters) ==
    LET url == base \o "/rest/v1/" \o table
        q == ParamsToString(FilterParams(filters))
    IN IF q # "" THEN url \o "?" \o q ELSE url

(***************************************************************************)
(* Session state                                                           *)
(***************************************************************************)
Bearer(token) == "Bearer " \o token

\* the headers object built by the constructor and by setCredentials
NewHeaders(key) ==
    [h \in {"apikey", "Authorization", "Content-Type", "Prefer"} |->
        CASE h = "apikey" -> key
          [] h = "Authorization" -> Bearer(key)
          [] h = "Content-Type" -> "application/json"
          [] OTHER -> "return=representation"]

\* this.headers['Authorization'] = `Bearer ${token}`
setAuthToken(hdrs, token) == [hdrs EXCEPT !["Authorization"] = Bearer(token)]


\* this.headers['Authorization'] = `Bearer ${this.supabaseKey}` at the end of signOut
ResetAuthorization(hdrs, key) == [hdrs EXCEPT !["Authorization"] = Bearer(key)]

(***************************************************************************)
(* Requests, responses and calls                                           *)
(***************************************************************************)
NoBody == ""
NoResponse == [status |-> 0, statusText |-> ""]
\* what fetch can resolve to: a success status or a failure status
Responses == {[status |-> 200, statusText |-> "OK"],
              [status |-> 400, statusText |-> "Bad Request"]}
\* response.ok
Ok(resp) == resp.status >= 200 /\ resp.status <= 299

\* the rows a backend may answer a CRUD request with
RowSets == {<<>>, <<"{\"id\":1}">>, <<"{\"id\":1}", "{\"id\":2}">>}
\* parsed JSON error bodies; "" stands for a field the body does not have
ErrorBodies ==
    {[error_description |-> "", msg |-> "", message |-> ""],
     [error_description |-> "", msg |-> "", message |-> "duplicate nickname"],
     [error_description |-> "", msg |-> "User already registered", message |-> "generic"],
     [error_description |-> "Invalid login credentials", msg |-> "", message |-> "generic"]}

CrudOps == {"read", "query", "getById", "insert", "insertMany",
            "update", "updateById", "delete", "deleteById"}
AuthOps == {"signUp", "signIn", "signOut"}

\* fetch(url, {method, headers, body}): the request is built from the init
\* object when fetch is called, so it holds the header values of that moment
Request(method, url, hdrs, body) ==
    [method |-> method, url |-> url, headers |-> hdrs, body |-> body]

NoRequest == Request("", "", NewHeaders(""), NoBody)

\* history: the operation kind and the options (for update and delete: the
\* Filter Set) that a buildUrl, update or delete call was given, and the
\* record, record array, patch or sign-up / sign-in arguments of a call, the
\* URL and key that setCredentials was given, or the token signOut was given
NoArgs ==
    [operation |-> "", options |-> NoOptions, data |-> JsUndefined,
     email |-> "", password |-> "", url |-> "", key |-> "",
     accessToken |-> JsUndefined]

\* an async call entered; it has issued no request yet
NewCall(op, table) ==
    [op |-> op, table |-> table, pc |-> "start", req |-> NoRequest,
     resp |-> NoResponse, body |-> JsUndefined, nfetch |-> 0, stale |-> FALSE,
     args |-> NoArgs]

\* history: the call was given the Filter Set filters
Given(call, operation, filters) ==
    [call EXCEPT !.args.operation = operation,
                 !.args.options = [NoOptions EXCEPT !.filters = JsFilters(filters)]]

\* history: the call was given the Query Options options
GivenQuery(call, options) ==
    [call EXCEPT !.args.operation = "select", !.args.options = options]

\* history: the call was given the record, record array, patch or metadata data
GivenData(call, data) == [call EXCEPT !.args.data = data]

\* history: the call was given the token accessToken, or none
GivenToken(call, accessToken) == [call EXCEPT !.args.accessToken = accessToken]

\* history: the call was given email and password
GivenLogin(call, email, password) ==
    [call EXCEPT !.args.email = email, !.args.password = password]

\* a response body that is not JSON: response.json() rejects on it
Unparseable == [t |-> "unparseable", n |-> 0, s |-> "", rows |-> <<>>]

\* the call after `await response.json()` settled on body
Parsed(call, body) == [call EXCEPT !.body = body]

\* `await fetch(url, init)`: one request goes out and the call suspends
fetch(call, req) ==
    [call EXCEPT !.pc = "fetch", !.req = req, !.body = JsUndefined, !.nfetch = @ + 1]

NoSettlement ==
    [op |-> "", table |-> "", state |-> "none", value |-> JsUndefined,
     log |-> <<>>, nfetch |-> 0, req |-> NoRequest, resp |-> NoResponse,
     body |-> JsUndefined, args |-> NoArgs]

\* a synchronous call returned value to its caller
Returned(op, table, args, value) ==
    [NoSettlement EXCEPT !.op = op, !.table = table, !.state = "returned",
                         !.value = value, !.args = args]

\* the call's promise is fulfilled with value
Fulfilled(call, value, log) ==
    [op |-> call.op, table |-> call.table, state |-> "fulfilled", value |-> value,
     log |-> log, nfetch |-> call.nfetch, req |-> call.req, resp |-> call.resp,
     body |-> call.body, args |-> call.args]

\* the call's promise is rejected with error
Rejected(call, error, log) ==
    [op |-> call.op, table |-> call.table, state |-> "rejected", value |-> error,
     log |-> log, nfetch |-> call.nfetch, req |-> call.req, resp |-> call.resp,
     body |-> call.body, args |-> call.args]

\* JSON.stringify of a Record or of an array of Records
JSONstringify(v) ==
    LET RECURSIVE Join(_)
        Join(q) == IF q = <<>> THEN ""
                   ELSE Head(q) \o (IF Tail(q) = <<>> THEN "" ELSE "," \o Join(Tail(q)))
    IN CASE v.t = "object" -> v.s
         [] v.t = "array" -> "[" \o Join(v.rows) \o "]"
         [] v.t = "number" -> ToString(v.n)
         [] v.t = "string" -> "\"" \o v.s \o "\""
         [] OTHER -> "null"

\* the console.error line of each operation's catch block
CatchLog(op, table) ==
    CASE op = "read" -> <<"Error reading from " \o table \o ":">>
      [] op = "query" -> <<"Error querying " \o table \o ":">>
      [] op = "getById" -> <<"Error querying " \o table \o ":",
                             "Error getting " \o table \o " by ID:">>
      [] op = "insert" -> <<"Error inserting into " \o table \o ":">>
      [] op = "insertMany" -> <<"Error inserting multiple records into " \o table \o ":">>
      [] op \in {"update", "updateById"} -> <<"Error updating " \o table \o ":">>
      [] op \in {"delete", "deleteById"} -> <<"Error deleting from " \o table \o ":">>
      [] op = "signUp" -> <<"Error signing up:">>
      [] op = "signIn" -> <<"Error signing in:">>
      [] OTHER -> <<"Error signing out:">>

\* a || b on strings
OrElse(a, b) == IF a # "" THEN a ELSE b

\* the message built from a parsed error body on a failure status
ErrorMessage(op, error, statusText) ==
    CASE op \in CrudOps -> "Supabase Error: " \o OrElse(error.message, statusText)
      [] op = "signUp" ->
           "Supabase Auth Error: " \o OrElse(error.msg, OrElse(error.message, statusText))
      [] op = "signIn" ->
           "Supabase Auth Error: "
             \o OrElse(error.error_description,
                       OrElse(error.msg, OrElse(error.message, statusText)))
      [] OTHER ->
           "Supabase Logout Warning: " \o OrElse(error.msg, OrElse(error.message, statusText))

\* what the operation returns for the parsed body of a success response
ReturnValue(op, data) ==
    IF op = "getById"
    THEN (IF Len(data.rows) > 0 THEN JsObject(data.rows[1]) ELSE JsNull)
    ELSE data


(***************************************************************************)
(* The request each operation builds                                       *)
(***************************************************************************)
\* read rebuilds the anonymous headers instead of sending this.headers
ReadRequest_AnonHeaders(base, hdrs, table, options) ==
    Request("GET", buildUrl(base, table, "select", options),
            NewHeaders(hdrs["apikey"]), NoBody)

ReadRequest(base, hdrs, table, options) ==
    Request("GET", buildUrl(base, table, "select", options), hdrs, NoBody)

\* queryOptions = {...options, filters: filters}
QueryRequest(base, hdrs, table, filters, options) ==
    ReadRequest(base, hdrs, table,
                [options EXCEPT !.filters = JsFilters(filters)])

\* the spread is written the other way round, {limit: 1, ...options}: a
\* limit the caller supplies wins
GetByIdRequest_CallerLimit(base, hdrs, table, id, options) ==
    QueryRequest(base, hdrs, table, <<<<"id", id>>>>,
                 IF options.limit # JsUndefined THEN options
                 ELSE [options EXCEPT !.limit = JsNumber(1)])

\* this.query(table, {id: id}, {...options, limit: 1})
GetByIdRequest(base, hdrs, table, id, options) ==
    QueryRequest(base, hdrs, table, <<<<"id", id>>>>,
                 [options EXCEPT !.limit = JsNumber(1)])

\* the record is never serialised into the request
InsertRequest_NoBody(base, hdrs, table, data) ==
    Request("POST", base \o "/rest/v1/" \o table, hdrs, NoBody)

\* insert and insertMany: POST of JSON.stringify(data) / JSON.stringify(dataArray)
InsertRequest(base, hdrs, table, data) ==
    Request("POST", base \o "/rest/v1/" \o table, hdrs, JSONstringify(data))

UpdateRequest(base, hdrs, table, filters, data) ==
    Request("PATCH", FilterUrl(base, table, filters), hdrs, JSONstringify(data))

DeleteRequest(base, hdrs, table, filters) ==
    Request("DELETE", FilterUrl(base, table, filters), hdrs, NoBody)

SignUpRequest(base, hdrs, email, password, data) ==
    Request("POST", base \o "/auth/v1/signup", hdrs,
            "{\"email\":\"" \o email \o "\",\"password\":\"" \o password
              \o "\",\"data\":" \o JSONstringify(data) \o "}")

SignInRequest(base, hdrs, email, password) ==
    Request("POST", base \o "/auth/v1/token?grant_type=password", hdrs,
            "{\"email\":\"" \o email \o "\",\"password\":\"" \o password \o "\"}")

\* headers = {...this.headers}; an explicit accessToken replaces Authorization
SignOutRequest(base, hdrs, accessToken) ==
    Request("POST", base \o "/auth/v1/logout",
            IF Truthy(accessToken)
            THEN [hdrs EXCEPT !["Authorization"] = Bearer(JsToString(accessToken))]
            ELSE hdrs,
            NoBody)

(***************************************************************************)
(* The bag of suspended calls                                              *)
(***************************************************************************)
InFlight == BagToSet(calls)
Add(call) == calls (+) SetToBag({call})
\* a suspended call holds no parsed body: the body is consumed by the step that parses it
Remove(call) == calls (-) SetToBag({Parsed(call, JsUndefined)})
Replace(call, new) == Remove(call) (+) SetToBag({new})

\* history: every signIn still in flight was issued before the reset that just completed
MarkStale(B) ==
    BagOfAll(LAMBDA c : IF c.op = "signIn" THEN [c EXCEPT !.stale = TRUE] ELSE c, B)

(***************************************************************************)
(* Operations: the part of each that runs up to `await fetch`              *)
(***************************************************************************)
Issue(call) ==
    /\ calls' = Add(call)
    /\ settled' = NoSettlement
    /\ UNCHANGED <<supabaseUrl, supabaseKey, headers, lastToken, anonymous>>

read(table, options) ==
    /\ Issue(fetch(GivenQuery(NewCall("read", table), options),
                   ReadRequest(supabaseUrl, headers, table, options)))
    /\ UNCHANGED session

query(table, filters, options) ==
    /\ Issue(fetch(NewCall("query", table),
                   QueryRequest(supabaseUrl, headers, table, filters, options)))
    /\ UNCHANGED session

getById(table, id, options) ==
    /\ Issue(fetch(NewCall("getById", table),
                   GetByIdRequest(supabaseUrl, headers, table, id, options)))
    /\ UNCHANGED session

insert(table, data) ==
    /\ Issue(fetch(GivenData(NewCall("insert", table), data),
                   InsertRequest(supabaseUrl, headers, table, data)))
    /\ UNCHANGED session

insertMany(table, dataArray) ==
    /\ Issue(fetch(GivenData(NewCall("insertMany", table), dataArray),
                   InsertRequest(supabaseUrl, headers, table, dataArray)))
    /\ UNCHANGED session

update(table, filters, data) ==
    /\ Issue(fetch(GivenData(Given(NewCall("update", table), "update", filters), data),
                   UpdateRequest(supabaseUrl, headers, table, filters, data)))
    /\ UNCHANGED session

\* the id is passed where the Filter Set is expected, this.update(table, id, data):
\* Object.entries of a scalar has no entry, so no filter is sent
updateById_NoFilter(table, id, data) ==
    /\ Issue(fetch(GivenData(Given(NewCall("updateById", table), "update", <<>>), data),
                   UpdateRequest(supabaseUrl, headers, table, <<>>, data)))
    /\ UNCHANGED session

updateById(table, id, data) ==
    /\ Issue(fetch(GivenData(Given(NewCall("updateById", table), "update",
                                    <<<<"id", id>>>>), data),
                   UpdateRequest(supabaseUrl, headers, table, <<<<"id", id>>>>, data)))
    /\ UNCHANGED session

delete(table, filters) ==
    /\ Issue(fetch(Given(NewCall("delete", table), "delete", filters),
                   DeleteRequest(supabaseUrl, headers, table, filters)))
    /\ UNCHANGED session

deleteById(table, id) ==
    /\ Issue(fetch(Given(NewCall("deleteById", table), "delete", <<<<"id", id>>>>),
                   DeleteRequest(supabaseUrl, headers, table, <<<<"id", id>>>>)))
    /\ UNCHANGED session

signUp(email, password, data) ==
    /\ Issue(fetch(GivenData(GivenLogin(NewCall("signUp", ""), email, password), data),
                   SignUpRequest(supabaseUrl, headers, email, password, data)))
    /\ UNCHANGED session

signIn(email, password) ==
    /\ Issue(fetch(GivenLogin(NewCall("signIn", ""), email, password),
                   SignInRequest(supabaseUrl, headers, email, password)))
    /\ UNCHANGED session

\* the explicit token is stored with setAuthToken before the request is sent
signOut_StoresToken(accessToken) ==
    /\ calls' = Add(fetch(GivenToken(NewCall("signOut", ""), accessToken),
                          SignOutRequest(supabaseUrl, headers, accessToken)))
    /\ settled' = NoSettlement
    /\ headers' = IF Truthy(accessToken)
                  THEN setAuthToken(headers, JsToString(accessToken)) ELSE headers
    /\ session' = NoToken
    /\ UNCHANGED <<supabaseUrl, supabaseKey, lastToken, anonymous>>

signOut(accessToken) ==
    /\ Issue(fetch(GivenToken(NewCall("signOut", ""), accessToken),
                   SignOutRequest(supabaseUrl, headers, accessToken)))
    /\ session' = NoToken

\* buildUrl called by the application itself
callBuildUrl(table, operation, options) ==
    /\ settled' = Returned("buildUrl", table,
                           [NoArgs EXCEPT !.operation = operation, !.options = options],
                           JsString(buildUrl(supabaseUrl, table, operation, options)))
    /\ UNCHANGED <<supabaseUrl, supabaseKey, headers, calls, session, lastToken, anonymous>>

\* setAuthToken called by the application itself
callSetAuthToken(token) ==
    /\ headers' = setAuthToken(headers, token)
    /\ settled' = NoSettlement
    /\ session' = NoToken
    /\ anonymous' = FALSE
    /\ UNCHANGED <<supabaseUrl, supabaseKey, calls, lastToken>>

\* only the two fields are replaced; the headers object is left as it is
setCredentials_KeepsHeaders(url, key) ==
    /\ supabaseUrl' = url
    /\ supabaseKey' = key
    /\ headers' = headers
    /\ settled' = Returned("setCredentials", "",
                           [NoArgs EXCEPT !.url = url, !.key = key], JsUndefined)
    /\ session' = NoToken
    /\ anonymous' = TRUE
    /\ calls' = MarkStale(calls)
    /\ UNCHANGED lastToken

setCredentials(url, key) ==
    /\ supabaseUrl' = url
    /\ supabaseKey' = key
    /\ headers' = NewHeaders(key)
    /\ settled' = Returned("setCredentials", "",
                           [NoArgs EXCEPT !.url = url, !.key = key], JsUndefined)
    /\ session' = NoToken
    /\ anonymous' = TRUE
    /\ calls' = MarkStale(calls)
    /\ UNCHANGED lastToken


(***************************************************************************)
(* Continuations: what runs when an awaited promise settles                *)
(***************************************************************************)
\* fetch rejects when the network call itself cannot complete
TransportError == JsError("TypeError", "Failed to fetch")
\* response.json() rejects when the body is not JSON
ParseError == JsError("SyntaxError", "Unexpected token < in JSON at position 0")

\* the bodies response.json() can resolve to for a call
Bodies(call) ==
    IF ~Ok(call.resp) THEN ErrorBodies
    ELSE IF call.op \in CrudOps THEN {JsArray(rows) : rows \in RowSets}
    ELSE {JsSession(tok) : tok \in Tokens \cup {NoToken}}

\* signIn forgets to store the token it was given
SignInHeaders_NotStored(hdrs, result) == hdrs

\* signIn stores access_token without checking that the response has one
SignInHeaders_Unguarded(hdrs, result) == setAuthToken(hdrs, result.s)

\* if (result.access_token) { this.setAuthToken(result.access_token); }
SignInHeaders(hdrs, result) ==
    IF Truthy(JsString(result.s)) THEN setAuthToken(hdrs, result.s) ELSE hdrs

\* the catch block sends the request again before it gives up
Throw_Retry(call, error) ==
    IF call.nfetch < 2
    THEN /\ calls' = Replace(call, fetch(call, call.req))
         /\ settled' = NoSettlement
         /\ UNCHANGED <<supabaseUrl, supabaseKey, headers, session, lastToken, anonymous>>
    ELSE /\ calls' = Remove(call)
         /\ settled' = Rejected(call, error, CatchLog(call.op, call.table))
         /\ session' = IF call.op = "signOut" THEN NoToken ELSE session
         /\ UNCHANGED <<supabaseUrl, supabaseKey, headers, lastToken, anonymous>>

\* getById's catch block returns the not-found value instead of rethrowing
Throw_Swallow(call, error) ==
    /\ calls' = Remove(call)
    /\ settled' = IF call.op = "getById"
                  THEN Fulfilled(call, JsNull, CatchLog(call.op, call.table))
                  ELSE Rejected(call, error, CatchLog(call.op, call.table))
    /\ session' = IF call.op = "signOut" THEN NoToken ELSE session
    /\ UNCHANGED <<supabaseUrl, supabaseKey, headers, lastToken, anonymous>>

\* catch (error) { console.error(...); throw error; }
Throw(call, error) ==
    /\ calls' = Remove(call)
    /\ settled' = Rejected(call, error, CatchLog(call.op, call.table))
    /\ session' = IF call.op = "signOut" THEN NoToken ELSE session
    /\ UNCHANGED <<supabaseUrl, supabaseKey, headers, lastToken, anonymous>>

\* the reset reaches the requests in flight, as if they shared this.headers
SignOutReturn_SharedHeaders(call, resp, log) ==
    /\ headers' = ResetAuthorization(headers, supabaseKey)
    /\ calls' = BagOfAll(LAMBDA c : [c EXCEPT !.req.headers["Authorization"] =
                                                  Bearer(supabaseKey)],
                         MarkStale(Remove(call)))
    /\ settled' = Fulfilled([call EXCEPT !.resp = resp], JsUndefined, log)
    /\ session' = NoToken
    /\ anonymous' = TRUE
    /\ UNCHANGED <<supabaseUrl, supabaseKey, lastToken>>

\* the reset uses the key the logout request was issued with, not this.supabaseKey
SignOutReturn_IssueKey(call, resp, log) ==
    /\ headers' = ResetAuthorization(headers, call.req.headers["apikey"])
    /\ calls' = MarkStale(Remove(call))
    /\ settled' = Fulfilled([call EXCEPT !.resp = resp], JsUndefined, log)
    /\ session' = NoToken
    /\ anonymous' = TRUE
    /\ UNCHANGED <<supabaseUrl, supabaseKey, lastToken>>

\* the end of signOut's try block: the Authorization header is reset
SignOutReturn(call, resp, log) ==
    /\ headers' = ResetAuthorization(headers, supabaseKey)
    /\ calls' = MarkStale(Remove(call))
    /\ settled' = Fulfilled([call EXCEPT !.resp = resp], JsUndefined, log)
    /\ session' = NoToken
    /\ anonymous' = TRUE
    /\ UNCHANGED <<supabaseUrl, supabaseKey, lastToken>>

\* fetch resolves with a response and the call goes on to `await response.json()`
FetchResolve(call, resp) ==
    /\ call \in InFlight
    /\ call.pc = "fetch"
    /\ ~(call.op = "signOut" /\ Ok(resp))
    /\ calls' = Replace(call, [call EXCEPT !.pc = "json", !.resp = resp])
    /\ settled' = NoSettlement
    /\ UNCHANGED <<supabaseUrl, supabaseKey, headers, session, lastToken, anonymous>>

\* fetch rejects: the catch block logs and rethrows
FetchReject(call) ==
    /\ call \in InFlight
    /\ call.pc = "fetch"
    /\ Throw(call, TransportError)

\* response.json() rejects: the catch block logs and rethrows
JsonReject(call) ==
    /\ call \in InFlight
    /\ call.pc = "json"
    /\ Throw(Parsed(call, Unparseable), ParseError)

\* signUp stores the access token of its response, as signIn does
JsonResolveData_StoresToken(call, data) ==
    /\ call \in InFlight
    /\ call.pc = "json"
    /\ Ok(call.resp)
    /\ call.op \in CrudOps \cup {"signUp"}
    /\ calls' = Remove(call)
    /\ settled' = Fulfilled(call, ReturnValue(call.op, data), <<>>)
    /\ headers' = IF call.op = "signUp" THEN SignInHeaders(headers, data) ELSE headers
    /\ UNCHANGED <<supabaseUrl, supabaseKey, session, lastToken, anonymous>>

\* a success response parsed: a CRUD operation or signUp returns
JsonResolveData(call, data) ==
    /\ call \in InFlight
    /\ call.pc = "json"
    /\ Ok(call.resp)
    /\ call.op \in CrudOps \cup {"signUp"}
    /\ calls' = Remove(call)
    /\ settled' = Fulfilled(Parsed(call, data), ReturnValue(call.op, data), <<>>)
    /\ UNCHANGED <<supabaseUrl, supabaseKey, headers, session, lastToken, anonymous>>

\* a success response parsed by signIn: the token is stored and the result returned
signInOk(call, result) ==
    /\ call \in InFlight
    /\ call.pc = "json"
    /\ Ok(call.resp)
    /\ call.op = "signIn"
    /\ headers' = SignInHeaders(headers, result)
    /\ calls' = Remove(call)
    /\ settled' = Fulfilled(Parsed(call, result), result, <<>>)
    /\ session' = IF result.s # NoToken THEN result.s ELSE session
    /\ lastToken' = IF result.s # NoToken THEN result.s ELSE lastToken
    /\ anonymous' = IF result.s # NoToken /\ ~call.stale THEN FALSE ELSE anonymous
    /\ UNCHANGED <<supabaseUrl, supabaseKey>>

\* a failure response parsed: the operation throws the classified error
JsonResolveError(call, error) ==
    /\ call \in InFlight
    /\ call.pc = "json"
    /\ ~Ok(call.resp)
    /\ call.op # "signOut"
    /\ Throw(Parsed(call, error),
             JsError("Error", ErrorMessage(call.op, error, call.resp.statusText)))

\* signOut's fetch resolves with a success status
signOutOk(call, resp) ==
    /\ call \in InFlight
    /\ call.pc = "fetch"
    /\ call.op = "signOut"
    /\ Ok(resp)
    /\ SignOutReturn(call, resp, <<>>)

\* signOut's failure response parsed: console.warn, then the reset
signOutWarn(call, error) ==
    /\ call \in InFlight
    /\ call.pc = "json"
    /\ call.op = "signOut"
    /\ ~Ok(call.resp)
    /\ SignOutReturn(call, call.resp,
                     <<ErrorMessage("signOut", error, call.resp.statusText)>>)

(***************************************************************************)
(* Specifications                                                          *)
(***************************************************************************)
Init ==
    /\ supabaseUrl \in Urls
    /\ supabaseKey \in Keys
    /\ headers = NewHeaders(supabaseKey)
    /\ calls = EmptyBag
    /\ settled = NoSettlement
    /\ session = NoToken
    /\ lastToken = NoToken
    /\ anonymous = FALSE

OptionSets ==
    {NoOptions,
     [NoOptions EXCEPT !.order = JsObject("{}"), !.column = JsString("created_at"),
                       !.direction = JsString("desc"), !.limit = JsNumber(50)],
     [NoOptions EXCEPT !.select = JsString("id,name"), !.offset = JsNumber(0)]}
FilterSets ==
    {<<>>, <<<<"id", JsNumber(1)>>>>,
     <<<<"user_id", JsNumber(1)>>, <<"status", JsString("inactive")>>>>}
Ids == {JsNumber(1)}
Datas == {JsObject("{\"content\":\"hi\"}"), JsObject("{}")}
DataArrays == {JsArray(<<"{\"content\":\"hi\"}", "{\"content\":\"yo\"}">>)}
Emails == {"test@test.com"}
Passwords == {"test"}
AccessTokens == {JsUndefined} \cup {JsString(tok) : tok \in Tokens}

\* the operation names buildUrl is called with
Operations == {"select", "insert", "update", "delete"}

\* Filter Sets of up to MaxFilters entries: column names (two of them array
\* indices) with number, string and boolean values, in every insertion order
FilterKeys == {"status", "user_id", "7", "10"}
FilterValues == {JsNumber(1), JsString("a b"), JsBoolean(TRUE)}
UrlFilterSets ==
    {F \in UNION {[1..n -> FilterKeys \X FilterValues] : n \in 0..MaxFilters} :
        \A i, j \in 1..Len(F) : i # j => F[i][1] # F[j][1]}

\* Query Options whose select, order, limit and offset are each left out,
\* null or set; filters left out or an empty Filter Set
ScalarOptions ==
    {[filters |-> f, select |-> sel, order |-> o.order, column |-> o.column,
      direction |-> o.direction, limit |-> lim, offset |-> off] :
        f \in {JsUndefined, JsFilters(<<>>)},
        sel \in {JsUndefined, JsNull, JsString("id,name")},
        o \in {[order |-> JsUndefined, column |-> JsUndefined, direction |-> JsUndefined],
               [order |-> JsNull, column |-> JsUndefined, direction |-> JsUndefined]}
              \cup [order : {JsObject("{}")}, column : {JsUndefined, JsString("date")},
                    direction : {JsUndefined, JsString("desc")}],
        lim \in {JsUndefined, JsNull, JsNumber(1), JsNumber(10)},
        off \in {JsUndefined, JsNull, JsNumber(0), JsNumber(20)}}

\* Query Options that hold only a Filter Set, or null in its place
FilterOptions ==
    {[NoOptions EXCEPT !.filters = f] :
        f \in {JsNull} \cup {JsFilters(F) : F \in UrlFilterSets}}

\* a Filter Set together with every other option, as the test of all
\* options combined and the comment board's ordered, limited read give them
MixedOptions ==
    {[o EXCEPT !.filters = JsFilters(F)] :
        o \in {[NoOptions EXCEPT !.select = JsString("id,name"),
                                 !.order = JsObject("{}"), !.column = JsString("date"),
                                 !.direction = JsString("asc"), !.limit = JsNumber(5),
                                 !.offset = JsNumber(10)],
               [NoOptions EXCEPT !.order = JsObject("{}"),
                                 !.column = JsString("created_at"),
                                 !.direction = JsString("desc"), !.limit = JsNumber(50)]},
        F \in UrlFilterSets}

UrlOptions == ScalarOptions \cup FilterOptions \cup MixedOptions

\* the tables read is called for
UrlTables == {"trips", "comments"}

\* the project the comment board's client is constructed for
BoardUrl == "https://a.supabase.co"
BoardKey == "anon-key-1"

\* the application awaits each call before it makes the next
Idle == calls = EmptyBag
\* the application may have up to MaxInFlight calls suspended
Room == BagCardinality(calls) < MaxInFlight

\* every public operation, each call awaited before the next is made
Next ==
    \/ Idle /\ \E table \in Tables, options \in OptionSets : read(table, options)
    \/ Idle /\ \E table \in Tables, filters \in FilterSets, options \in OptionSets :
                 query(table, filters, options)
    \/ Idle /\ \E table \in Tables, id \in Ids, options \in OptionSets :
                 getById(table, id, options)
    \/ Idle /\ \E table \in Tables, data \in Datas : insert(table, data)
    \/ Idle /\ \E table \in Tables, dataArray \in DataArrays : insertMany(table, dataArray)
    \/ Idle /\ \E table \in Tables, filters \in FilterSets, data \in Datas :
                 update(table, filters, data)
    \/ Idle /\ \E table \in Tables, id \in Ids, data \in Datas : updateById(table, id, data)
    \/ Idle /\ \E table \in Tables, filters \in FilterSets : delete(table, filters)
    \/ Idle /\ \E table \in Tables, id \in Ids : deleteById(table, id)
    \/ Idle /\ \E email \in Emails, password \in Passwords, data \in Datas :
                 signUp(email, password, data)
    \/ Idle /\ \E email \in Emails, password \in Passwords : signIn(email, password)
    \/ Idle /\ \E accessToken \in AccessTokens : signOut(accessToken)
    \/ Idle /\ \E url \in Urls, key \in Keys : setCredentials(url, key)
    \/ \E call \in InFlight, resp \in Responses : FetchResolve(call, resp)
    \/ \E call \in InFlight : FetchReject(call)
    \/ \E call \in InFlight : JsonReject(call)
    \/ \E call \in InFlight : \E data \in Bodies(call) : JsonResolveData(call, data)
    \/ \E call \in InFlight : \E result \in Bodies(call) : signInOk(call, result)
    \/ \E call \in InFlight : \E error \in Bodies(call) : JsonResolveError(call, error)
    \/ \E call \in InFlight, resp \in Responses : signOutOk(call, resp)
    \/ \E call \in InFlight : \E error \in Bodies(call) : signOutWarn(call, error)

Spec == Init /\ [][Next]_vars

\* the client as the comment board constructs it
InitRace ==
    /\ supabaseUrl = BoardUrl
    /\ supabaseKey = BoardKey
    /\ headers = NewHeaders(supabaseKey)
    /\ calls = EmptyBag
    /\ settled = NoSettlement
    /\ session = NoToken
    /\ lastToken = NoToken
    /\ anonymous = FALSE

\* a signIn or a signOut is suspended
AuthInFlight == \E call \in InFlight : call.op \in {"signIn", "signOut"}

\* the same, with the application also calling setAuthToken itself and
\* resetting the credentials while a signIn or signOut is still in flight
NextApi ==
    \/ Next
    \/ Idle /\ \E token \in Tokens : callSetAuthToken(token)
    \/ AuthInFlight /\ \E url \in Urls, key \in Keys : setCredentials(url, key)

SpecApi == InitRace /\ [][NextApi]_vars

\* signOut without a token and with an explicit one, which is or is not the
\* token stored at that moment, as signIn has returned it or the other token
LogoutTokens == {JsUndefined, JsString("token-B")}

\* reads, signIn, signOut and a credential reset issued without awaiting one
\* another, as the comment board does with its un-awaited signIn and loadComments
NextRace ==
    \/ Room /\ \E table \in Tables : read(table, NoOptions)
    \/ Room /\ \E email \in Emails, password \in Passwords : signIn(email, password)
    \/ Room /\ \E accessToken \in LogoutTokens : signOut(accessToken)
    \/ setCredentials(BoardUrl, BoardKey)
    \/ \E call \in InFlight, resp \in Responses : FetchResolve(call, resp)
    \/ \E call \in InFlight : FetchReject(call)
    \/ \E call \in InFlight : JsonReject(call)
    \/ \E call \in InFlight : \E data \in Bodies(call) : JsonResolveData(call, data)
    \/ \E call \in InFlight : \E result \in Bodies(call) : signInOk(call, result)
    \/ \E call \in InFlight : \E error \in Bodies(call) : JsonResolveError(call, error)
    \/ \E call \in InFlight, resp \in Responses : signOutOk(call, resp)
    \/ \E call \in InFlight : \E error \in Bodies(call) : signOutWarn(call, error)

SpecRace == InitRace /\ [][NextRace]_vars

\* a client that was just constructed and has not been called yet
Fresh == calls = EmptyBag /\ settled = NoSettlement

\* buildUrl has returned the URL of a select and no call is in flight
Built ==
    /\ calls = EmptyBag
    /\ settled.op = "buildUrl"
    /\ settled.args.operation = "select"

\* one call, on a fresh client, of the request builder, of read or of one of
\* the two operations that encode a Filter Set themselves; after a call of
\* the request builder, a read with the table and options of that call
NextUrl ==
    \/ Fresh /\ \E table \in Tables, operation \in Operations, options \in UrlOptions :
                  callBuildUrl(table, operation, options)
    \/ Fresh /\ \E table \in UrlTables, options \in OptionSets : read(table, options)
    \/ Built /\ read(settled.table, settled.args.options)
    \/ Fresh /\ \E table \in Tables, filters \in UrlFilterSets, data \in Datas :
                  update(table, filters, data)
    \/ Fresh /\ \E table \in Tables, filters \in UrlFilterSets : delete(table, filters)
    \/ \E call \in InFlight, resp \in Responses : FetchResolve(call, resp)
    \/ \E call \in InFlight : FetchReject(call)
    \/ \E call \in InFlight : JsonReject(call)
    \/ \E call \in InFlight : \E data \in Bodies(call) : JsonResolveData(call, data)
    \/ \E call \in InFlight : \E error \in Bodies(call) : JsonResolveError(call, error)

SpecUrl == Init /\ [][NextUrl]_vars


(***************************************************************************)
(* Properties                                                              *)
(***************************************************************************)
Authorization == headers["Authorization"]
HeaderNames == {"apikey", "Authorization", "Content-Type", "Prefer"}

\* call is a request that this step sends (it was not in flight before the step)
Issued(call) ==
    /\ call \in BagToSet(calls')
    /\ call.pc = "fetch"
    /\ ~call.stale
    /\ CopiesIn(call, calls') > CopiesIn(call, calls)

\* the requests that are in flight, as a bag
Requests(B) == BagOfAll(LAMBDA c : c.req, B)

\* every request in flight before the step is in flight, unaltered, after it
\* (allowSettled: but for the one whose call the step settles)
RequestsKept(allowSettled) ==
    \/ Requests(calls) \sqsubseteq Requests(calls')
    \/ /\ allowSettled
       /\ Requests(calls') \sqsubseteq Requests(calls)
       /\ BagCardinality(calls') = BagCardinality(calls) - 1

\* C1: when a signOut call finishes (returns or raises), the bearer token
\* equals the API key, whatever the outcome of the logout request.
C1_SignOutAlwaysResets ==
    (settled.op = "signOut" /\ settled.state # "none")
        => Authorization = Bearer(supabaseKey)

\* C3: signOut never raises to its caller because the remote invalidation
\* failed; a failed logout request is only logged.
C3_SignOutNeverRaises ==
    settled.op = "signOut" => settled.state # "rejected"

\* C2: every request of a CRUD operation, signUp or signIn that is issued while
\* a sign-in is in force (a signIn returned a token and no signOut was called
\* or finished and no credential reset was made since) carries
\* Authorization: Bearer <the token that signIn returned>.
C2_RequestsCarrySignInToken ==
    [][\A call \in BagToSet(calls') :
          (Issued(call) /\ call.op # "signOut" /\ session # NoToken)
              => call.req.headers["Authorization"] = Bearer(session)]_vars

\* a read goes out under the token of the sign-in in force
C2_Witness ==
    /\ session \in Tokens
    /\ \E call \in InFlight :
         /\ call.op = "read"
         /\ call.pc = "fetch"
         /\ call.req.headers["Authorization"] = Bearer(session)

\* C4: the bearer token is the API key until a signIn has returned a token, and
\* is always either the current API key or the token most recently returned by
\* a successful signIn.
C4_TokenIsKeyOrLastSignIn ==
    \/ Authorization = Bearer(supabaseKey)
    \/ lastToken # NoToken /\ Authorization = Bearer(lastToken)

\* a signIn has returned without a token while an earlier sign-in's token is held
C4_Witness ==
    /\ lastToken \in Tokens
    /\ Authorization = Bearer(lastToken)
    /\ settled.op = "signIn"
    /\ settled.state = "fulfilled"
    /\ settled.value.s = NoToken

\* the step issues, advances or settles a call of one of the operations ops
StepOf(ops) ==
    /\ calls' # calls
    /\ \E call \in BagToSet(calls) \cup BagToSet(calls') : call.op \in ops

\* C5: no step of a CRUD operation or of signUp, and no step of a signIn
\* that does not succeed, changes the bearer token or the API key.
C5_OnlyAuthChangesToken ==
    [][(\/ StepOf(CrudOps \cup {"signUp"})
        \/ StepOf({"signIn"}) /\ settled'.state # "fulfilled")
          => (headers' = headers /\ supabaseKey' = supabaseKey)]_vars

\* a CRUD call has just failed while the client is Authenticated
C5_Witness ==
    /\ settled.op \in CrudOps
    /\ settled.state = "rejected"
    /\ Authorization \in {Bearer(tok) : tok \in Tokens}

\* C6: every request a CRUD operation issues carries exactly the four headers
\* apikey = API key, Authorization = the Authorization value current when the
\* request is issued (Bearer + the bearer token), Content-Type =
\* application/json and Prefer = return=representation.
C6_CrudHeaders ==
    [][\A call \in BagToSet(calls') :
          (Issued(call) /\ call.op \in CrudOps) =>
             /\ DOMAIN call.req.headers = HeaderNames
             /\ call.req.headers["apikey"] = supabaseKey
             /\ call.req.headers["Authorization"] = Authorization
             /\ Authorization \in {Bearer(tok) : tok \in Tokens \cup {supabaseKey}}
             /\ call.req.headers["Content-Type"] = "application/json"
             /\ call.req.headers["Prefer"] = "return=representation"]_vars

\* an update goes out while the client is Authenticated
C6_Witness ==
    \E call \in InFlight :
        /\ call.op = "update"
        /\ call.pc = "fetch"
        /\ call.req.headers["Authorization"] \in {Bearer(tok) : tok \in Tokens}

\* C7: a CRUD request carries the Authorization value that was current when
\* it was issued, and no later step (a signIn or signOut finishing, a
\* credential reset) alters the request of a call that is still in flight.
C7_InFlightKeepToken ==
    [][/\ \A call \in BagToSet(calls') :
            (Issued(call) /\ call.op \in CrudOps)
                => call.req.headers["Authorization"] = Authorization
       /\ RequestsKept(settled'.state \in {"fulfilled", "rejected"})]_vars

\* a read is in flight under a token that the client has since replaced
C7_Witness ==
    \E call \in InFlight :
        /\ call.op = "read"
        /\ call.req.headers["Authorization"] # Authorization
        /\ call.req.headers["apikey"] = supabaseKey

\* C8: once a signOut has returned or a setCredentials was made, every request
\* of a CRUD operation or signIn issued afterwards carries Bearer <api key>
\* until a signIn issued after that reset succeeds.
C8_ResetStaysAnonymous ==
    [][\A call \in BagToSet(calls') :
          (Issued(call) /\ call.op # "signOut" /\ anonymous)
              => call.req.headers["Authorization"] = Bearer(supabaseKey)]_vars

\* C9: every invocation issues exactly one HTTP request, and a call that has
\* settled is no longer in flight, so its error reaches the caller once.
C9_OneRequestPerCall ==
    /\ \A call \in InFlight : call.nfetch = 1
    /\ (settled.op \in CrudOps \cup AuthOps /\ settled.state # "none")
          => (settled.nfetch = 1 /\ calls = EmptyBag)

\* a getById call has failed after its one request
C9_Witness ==
    /\ settled.op = "getById"
    /\ settled.state = "rejected"
    /\ settled.nfetch = 1

\* C10: a CRUD call whose request got a non-success status or no response at
\* all ends rejected, never fulfilled, and a call that got no response is
\* rejected with the very error fetch produced.
C10_CrudFailuresPropagate ==
    (settled.op \in CrudOps /\ settled.state # "none") =>
        /\ ~Ok(settled.resp) => settled.state = "rejected"
        /\ settled.resp = NoResponse => settled.value = TransportError

\* getById has raised the transport error
C10_Witness ==
    /\ settled.op = "getById"
    /\ settled.state = "rejected"
    /\ settled.resp = NoResponse
    /\ settled.value = TransportError

\* a CRUD or auth call has been rejected after a failure status was received
FailedOnStatus(ops) ==
    /\ settled.op \in ops
    /\ settled.state = "rejected"
    /\ settled.resp # NoResponse
    /\ ~Ok(settled.resp)

\* C11: on a failure status the error a CRUD operation raises has as its
\* message (after the client's fixed prefix) the message field of the error
\* body when the body parses and has one, and the status text otherwise, in
\* particular when the body is not JSON.
C11_CrudFailureMessage ==
    FailedOnStatus(CrudOps) =>
        settled.value.s = "Supabase Error: " \o
            (IF settled.body # Unparseable /\ settled.body.message # ""
             THEN settled.body.message
             ELSE settled.resp.statusText)

\* word occurs in the text s
Contains(s, word) ==
    \E i \in 1..(Len(s) - Len(word) + 1) : SubSeq(s, i, i + Len(word) - 1) = word

\* the buildUrl operation kind of each CRUD operation
OperationKind(op) ==
    CASE op \in {"read", "query", "getById"} -> "select"
      [] op \in {"insert", "insertMany"} -> "insert"
      [] op \in {"update", "updateById"} -> "update"
      [] OTHER -> "delete"

\* C12: the error a CRUD operation raises on a failure status (here: one
\* whose error body parsed) names the table and the operation of the call
\* that failed.
C12_CrudErrorCarriesContext ==
    (FailedOnStatus(CrudOps) /\ settled.body # Unparseable) =>
        /\ Contains(settled.value.s, settled.table)
        /\ \/ Contains(settled.value.s, settled.op)
           \/ Contains(settled.value.s, OperationKind(settled.op))

\* C13: signUp and signIn choose the message of the error they raise on a
\* failure status in one priority: the error body's error_description if
\* present, else its message, else the status text (a msg field, which is
\* also auth-specific, may rank between description and message).
C13_AuthErrorPriority ==
    (FailedOnStatus({"signUp", "signIn"}) /\ settled.body # Unparseable) =>
        settled.value.s = "Supabase Auth Error: " \o
            OrElse(settled.body.error_description,
                   OrElse(settled.body.msg,
                          OrElse(settled.body.message, settled.resp.statusText)))

\* the Query Options `options with limit forced to 1`, field by field
LimitOne(options) ==
    [filters |-> options.filters,
     select |-> options.select, order |-> options.order,
     column |-> options.column, direction |-> options.direction,
     limit |-> JsNumber(1), offset |-> options.offset]

GeneralForm(op) ==
    CASE op = "updateById" -> "update"
      [] op = "deleteById" -> "delete"
      [] OTHER -> op

\* how a call of operation op settles on a response and its body: the
\* settlement state, the value returned or raised and the lines logged
Outcome(op, table, resp, body) ==
    IF resp = NoResponse THEN <<"rejected", TransportError, CatchLog(op, table)>>
    ELSE IF body = Unparseable THEN <<"rejected", ParseError, CatchLog(op, table)>>
    ELSE IF Ok(resp) THEN <<"fulfilled", ReturnValue(op, body), <<>> >>
    ELSE <<"rejected", JsError("Error", ErrorMessage(op, body, resp.statusText)),
           CatchLog(op, table)>>

\* C15: in every client state the request of updateById(table, id, patch) is
\* the request (method, URL, headers, body) of update(table, {id}, patch) and
\* the request of deleteById(table, id) that of delete(table, {id}), and each
\* by-id call settles exactly as the general operation settles on the same
\* response: same result, same error, same log.
C15_ByIdIsGeneralForm ==
    [][/\ \A call \in BagToSet(calls') :
            /\ (Issued(call) /\ call.op = "updateById") =>
                  \E id \in Ids :
                      call.req = UpdateRequest(supabaseUrl, headers, call.table,
                                               <<<<"id", id>>>>, call.args.data)
            /\ (Issued(call) /\ call.op = "deleteById") =>
                  \E id \in Ids :
                      call.req = DeleteRequest(supabaseUrl, headers, call.table,
                                               <<<<"id", id>>>>)
       /\ (settled'.op \in {"updateById", "deleteById"} /\ settled'.state # "none") =>
              <<settled'.state, settled'.value, settled'.log>>
                  = Outcome(GeneralForm(settled'.op), settled'.table,
                            settled'.resp, settled'.body)]_vars

\* an updateById sent as an Authenticated user with the id filter has
\* returned the updated rows
C15_Witness ==
    /\ settled.op = "updateById"
    /\ settled.state = "fulfilled"
    /\ settled.req.method = "PATCH"
    /\ Contains(settled.req.url, "/rest/v1/trips?id=eq.1")
    /\ settled.req.headers["Authorization"] \in {Bearer(tok) : tok \in Tokens}
    /\ settled.value = settled.body

(***************************************************************************)
(* Reading a URL back, as the receiving side does                          *)
(***************************************************************************)
\* position of the first occurrence of the character c in s, 0 when there is none
IndexOf(s, c) ==
    IF \E i \in 1..Len(s) : SubSeq(s, i, i) = c
    THEN CHOOSE i \in 1..Len(s) :
            /\ SubSeq(s, i, i) = c
            /\ \A j \in 1..(i - 1) : SubSeq(s, j, j) # c
    ELSE 0

\* the part of url after its first ?, "" when it has none
QueryString(url) ==
    IF IndexOf(url, "?") = 0 THEN "" ELSE SubSeq(url, IndexOf(url, "?") + 1, Len(url))

RECURSIVE Split(_, _)
\* the pieces of s between the separators sep
Split(s, sep) ==
    IF s = "" THEN <<>>
    ELSE IF IndexOf(s, sep) = 0 THEN <<s>>
    ELSE <<SubSeq(s, 1, IndexOf(s, sep) - 1)>>
            \o Split(SubSeq(s, IndexOf(s, sep) + 1, Len(s)), sep)

\* the character a %XX escape stands for
Unescape(e) ==
    CASE e = "%2C" -> ","
      [] e = "%3D" -> "="
      [] e = "%26" -> "&"
      [] e = "%2B" -> "+"
      [] e = "%25" -> "%"
      [] e = "%3F" -> "?"
      [] e = "%2F" -> "/"
      [] e = "%3A" -> ":"
      [] e = "%40" -> "@"
      [] e = "%23" -> "#"
      [] OTHER -> e

RECURSIVE FormDecode(_)
\* application/x-www-form-urlencoded decoding of one name or value
FormDecode(s) ==
    IF s = "" THEN ""
    ELSE IF SubSeq(s, 1, 1) = "+" THEN " " \o FormDecode(SubSeq(s, 2, Len(s)))
    ELSE IF SubSeq(s, 1, 1) = "%" /\ Len(s) >= 3
         THEN Unescape(SubSeq(s, 1, 3)) \o FormDecode(SubSeq(s, 4, Len(s)))
    ELSE SubSeq(s, 1, 1) \o FormDecode(SubSeq(s, 2, Len(s)))

\* the <<name, value>> parameters of url's query string, in wire order
ParseQuery(url) ==
    LET pieces == Split(QueryString(url), "&")
    IN [i \in 1..Len(pieces) |->
           LET eq == IndexOf(pieces[i], "=")
           IN <<FormDecode(SubSeq(pieces[i], 1, eq - 1)),
                FormDecode(SubSeq(pieces[i], eq + 1, Len(pieces[i])))>>]

\* the values of the parameters named name
ParamValues(url, name) ==
    LET params == ParseQuery(url)
    IN [i \in 1..Len(SelectSeq(params, LAMBDA q : q[1] = name)) |->
           SelectSeq(params, LAMBDA q : q[1] = name)[i][2]]

\* buildUrl has just returned the URL of a select
BuiltSelect ==
    /\ settled.op = "buildUrl"
    /\ settled.state = "returned"
    /\ settled.args.operation = "select"

\* the Query Options that buildUrl call was given
GivenOptions == settled.args.options

\* that call was given a Filter Set and no other option
FiltersOnly ==
    /\ BuiltSelect
    /\ GivenOptions.filters.t = "object"
    /\ GivenOptions = [NoOptions EXCEPT !.filters = GivenOptions.filters]

\* the parameter the claims give each Filter Set entry
EqParam(entry) == <<entry[1], "eq." \o JsToString(entry[2])>>

\* C16 as stated: for every Filter Set F the query string of
\* buildUrl(table, 'select', {filters: F}) holds exactly the parameters
\* k = 'eq.' + v of F's entries, one per entry, in F's insertion order.
C16_FiltersInInsertionOrder ==
    FiltersOnly =>
        LET F == GivenOptions.filters.rows
        IN ParseQuery(settled.value.s) = [i \in 1..Len(F) |-> EqParam(F[i])]

\* C16 amended: exactly one parameter k = 'eq.' + v per entry of F and no
\* other parameter; entries whose key is an array index (a canonical
\* non-negative integer) come first in ascending numeric order, the other
\* entries follow in F's insertion order.
C16_FiltersInEnumerationOrder ==
    FiltersOnly =>
            LET F == GivenOptions.filters.rows
                params == ParseQuery(settled.value.s)
                Pos(k) == CHOOSE i \in 1..Len(F) : F[i][1] = k
            IN /\ Len(params) = Len(F)
               /\ \A i \in 1..Len(F) :
                     Cardinality({j \in 1..Len(params) : params[j] = EqParam(F[i])}) = 1
               /\ \A i, j \in 1..Len(params) :
                     i < j =>
                        LET a == params[i][1]
                            b == params[j][1]
                        IN IF IsArrayIndex(b)
                           THEN IsArrayIndex(a) /\ StringToNumber(a) < StringToNumber(b)
                           ELSE IsArrayIndex(a) \/ Pos(a) < Pos(b)

\* a Filter Set given as {status: 'a b', 7: 1} was encoded with the
\* array-index key first and the value form-encoded
C16_Witness ==
    /\ FiltersOnly
    /\ GivenOptions.filters.rows = <<<<"status", JsString("a b")>>, <<"7", JsNumber(1)>>>>
    /\ QueryString(settled.value.s) = "7=eq.1&status=eq.a+b"

\* C17: buildUrl emits an order parameter exactly when the caller supplies an
\* order object, and then exactly one, order = '<column>.<direction>', with
\* column 'id' and direction 'asc' when the object lacks the field; options
\* without order (left out or null) yield no order parameter.
C17_OrderIffSupplied ==
    BuiltSelect =>
        ParamValues(settled.value.s, "order") =
            IF GivenOptions.order.t = "object"
            THEN <<(IF GivenOptions.column = JsUndefined THEN "id"
                    ELSE GivenOptions.column.s)
                   \o "." \o
                   (IF GivenOptions.direction = JsUndefined THEN "asc"
                    ELSE GivenOptions.direction.s)>>
            ELSE <<>>

\* an order object that names only the direction was sent as order=id.desc
C17_Witness ==
    /\ BuiltSelect
    /\ GivenOptions.order.t = "object"
    /\ GivenOptions.column = JsUndefined
    /\ GivenOptions.direction = JsString("desc")
    /\ ParamValues(settled.value.s, "order") = <<"id.desc">>

\* C18: when the Query Options hold a limit (a positive integer) buildUrl
\* emits limit = its decimal rendering, and when they hold an offset (a
\* non-negative integer, 0 included) it emits offset = its decimal rendering.
C18_LimitOffsetEmitted ==
    BuiltSelect =>
        /\ (GivenOptions.limit.t = "number" /\ GivenOptions.limit.n >= 1) =>
              ParamValues(settled.value.s, "limit") = <<ToString(GivenOptions.limit.n)>>
        /\ (GivenOptions.offset.t = "number" /\ GivenOptions.offset.n >= 0) =>
              ParamValues(settled.value.s, "offset") = <<ToString(GivenOptions.offset.n)>>

\* the names of the parameters the scalar options are sent as
OptionNames == {"select", "order", "limit", "offset"}

\* C19: buildUrl emits no parameter for an option (filters, select, order,
\* limit, offset) that is left out, undefined or null, and with an empty
\* Filter Set (or none) and no other option it returns exactly
\* '<baseUrl>/rest/v1/<table>' with no '?'.
C19_NothingForAbsentOptions ==
    BuiltSelect =>
        LET params == ParseQuery(settled.value.s)
            Unset(v) == v \in {JsUndefined, JsNull}
        IN /\ Unset(GivenOptions.select) => ParamValues(settled.value.s, "select") = <<>>
           /\ Unset(GivenOptions.order) => ParamValues(settled.value.s, "order") = <<>>
           /\ Unset(GivenOptions.limit) => ParamValues(settled.value.s, "limit") = <<>>
           /\ Unset(GivenOptions.offset) => ParamValues(settled.value.s, "offset") = <<>>
           /\ Unset(GivenOptions.filters) =>
                 \A i \in 1..Len(params) : params[i][1] \in OptionNames
           /\ (/\ GivenOptions.filters \in {JsUndefined, JsNull, JsFilters(<<>>)}
               /\ Unset(GivenOptions.select) /\ Unset(GivenOptions.order)
               /\ Unset(GivenOptions.limit) /\ Unset(GivenOptions.offset)) =>
                 /\ settled.value.s = supabaseUrl \o "/rest/v1/" \o settled.table
                 /\ IndexOf(settled.value.s, "?") = 0

\* an empty Filter Set with select, order, limit and offset all null gave the
\* bare resource URL
C19_Witness ==
    /\ BuiltSelect
    /\ GivenOptions = [filters |-> JsFilters(<<>>), select |-> JsNull, order |-> JsNull,
                       column |-> JsUndefined, direction |-> JsUndefined,
                       limit |-> JsNull, offset |-> JsNull]
    /\ settled.value.s = supabaseUrl \o "/rest/v1/trips"

\* C20: the URL an update(table, F, patch) or delete(table, F) call sends its
\* request to is buildUrl(table, 'select', {filters: F}) for the Filter Set F
\* the call was given, and buildUrl called with operation insert, update or
\* delete returns the bare resource URL whatever options it is given.
C20_FilterUrlIsBuildUrl ==
    [][/\ \A call \in BagToSet(calls') :
            (Issued(call) /\ call.op \in {"update", "delete"}) =>
                /\ call.args.options.filters.rows \in UrlFilterSets
                /\ call.req.url = buildUrl(supabaseUrl, call.table, "select",
                                           call.args.options)
       /\ (settled'.op = "buildUrl" /\ settled'.args.operation # "select") =>
              settled'.value.s = supabaseUrl \o "/rest/v1/" \o settled'.table]_vars

\* a delete for {status: 'a b', 7: 1} is in flight to the URL with both
\* filters encoded
C20_Witness ==
    \E call \in InFlight :
        /\ call.op = "delete"
        /\ call.pc = "fetch"
        /\ call.args.options.filters.rows = <<<<"status", JsString("a b")>>, <<"7", JsNumber(1)>>>>
        /\ ParseQuery(call.req.url) = <<<<"7", "eq.1">>, <<"status", "eq.a b">>>>

(***************************************************************************)
(* Method, path and body of each operation                                 *)
(***************************************************************************)
\* the part of url in front of its query string
Path(url) ==
    IF IndexOf(url, "?") = 0 THEN url ELSE SubSeq(url, 1, IndexOf(url, "?") - 1)

\* the method fixed for each operation
FixedMethod(op) ==
    CASE op \in {"read", "query", "getById"} -> "GET"
      [] op \in {"insert", "insertMany", "signUp", "signIn", "signOut"} -> "POST"
      [] op \in {"update", "updateById"} -> "PATCH"
      [] OTHER -> "DELETE"

\* the request of call has the URL fixed for its operation (for a CRUD
\* operation: the path, whatever the query string)
OnFixedUrl(call) ==
    CASE call.op \in CrudOps ->
           Path(call.req.url) = supabaseUrl \o "/rest/v1/" \o call.table
      [] call.op = "signUp" -> call.req.url = supabaseUrl \o "/auth/v1/signup"
      [] call.op = "signIn" ->
           call.req.url = supabaseUrl \o "/auth/v1/token?grant_type=password"
      [] OTHER -> call.req.url = supabaseUrl \o "/auth/v1/logout"

\* the body fixed for the operation of call, from the arguments it was given
FixedBody(call) ==
    CASE call.op \in {"insert", "insertMany", "update", "updateById"} ->
           JSONstringify(call.args.data)
      [] call.op = "signUp" ->
           "{\"email\":\"" \o call.args.email \o "\",\"password\":\""
             \o call.args.password \o "\",\"data\":"
             \o JSONstringify(call.args.data) \o "}"
      [] call.op = "signIn" ->
           "{\"email\":\"" \o call.args.email \o "\",\"password\":\""
             \o call.args.password \o "\"}"
      [] OTHER -> NoBody

\* every request the step issues has the method, URL and body of its operation
FixedRequests ==
    \A call \in BagToSet(calls') :
        Issued(call) =>
            /\ call.req.method = FixedMethod(call.op)
            /\ OnFixedUrl(call)
            /\ call.req.body = FixedBody(call)

\* C21 as stated: each operation's request uses the method, path and body
\* fixed for it, and on a success status every operation returns the parsed
\* response body unchanged.
C21_FixedRequestBodyReturned ==
    [][/\ FixedRequests
       /\ (settled'.state = "fulfilled" /\ Ok(settled'.resp)) =>
              settled'.value = settled'.body]_vars

\* C21 (amended): each operation's request uses the method, path and body
\* fixed for it; on a success status read, query, insert, insertMany, update,
\* updateById, delete, deleteById, signUp and signIn return the parsed
\* response body unchanged, getById returns the first row of the parsed
\* array or null when it is empty, and signOut returns nothing.
C21_FixedRequestAndReturn ==
    [][/\ FixedRequests
       /\ (settled'.state = "fulfilled" /\ Ok(settled'.resp)) =>
              CASE settled'.op = "getById" ->
                     /\ settled'.body.t = "array"
                     /\ settled'.value =
                            IF settled'.body.rows = <<>> THEN JsNull
                            ELSE JsObject(Head(settled'.body.rows))
                [] settled'.op = "signOut" -> settled'.value = JsUndefined
                [] OTHER ->
                     /\ settled'.body \notin {JsUndefined, Unparseable}
                     /\ settled'.value = settled'.body]_vars

\* insertMany has posted the JSON array of its two records and returned the
\* rows of the response
C21_Witness ==
    /\ settled.op = "insertMany"
    /\ settled.state = "fulfilled"
    /\ settled.req.method = "POST"
    /\ settled.req.url = supabaseUrl \o "/rest/v1/" \o settled.table
    /\ settled.args.data \in DataArrays
    /\ settled.req.body = "[{\"content\":\"hi\"},{\"content\":\"yo\"}]"
    /\ settled.value = settled.body
    /\ Len(settled.body.rows) = 2

(***************************************************************************)
(* Credential reset                                                        *)
(***************************************************************************)
\* the request of call is addressed to the base URL base
Targets(call, base) ==
    /\ Len(call.req.url) > Len(base)
    /\ SubSeq(call.req.url, 1, Len(base) + 1) = base \o "/"

\* C22: from any client state (Anonymous or Authenticated) setCredentials(url,
\* key) leaves base URL = url, API key = key, apikey header = key and bearer
\* token = key; nothing else replaces the base URL or the API key, and every
\* request issued later is addressed to the base URL then current.
C22_SetCredentialsResets ==
    [][/\ settled'.op = "setCredentials" =>
              /\ supabaseUrl' = settled'.args.url
              /\ supabaseKey' = settled'.args.key
              /\ headers'["apikey"] = settled'.args.key
              /\ headers'["Authorization"] = Bearer(settled'.args.key)
       /\ (supabaseUrl' # supabaseUrl \/ supabaseKey' # supabaseKey)
              => settled'.op = "setCredentials"
       /\ \A call \in BagToSet(calls') :
              Issued(call) =>
                  /\ Targets(call, supabaseUrl')
                  /\ \A base \in Urls \ {supabaseUrl'} : ~Targets(call, base)]_vars

\* setCredentials has just been made on a client that had signed in, and the
\* client is Anonymous under the key it was given
C22_Witness ==
    /\ settled.op = "setCredentials"
    /\ lastToken \in Tokens
    /\ supabaseUrl = settled.args.url
    /\ supabaseKey = settled.args.key
    /\ headers["apikey"] = supabaseKey
    /\ Authorization = Bearer(supabaseKey)

(***************************************************************************)
(* Order of the parameters of a select                                     *)
(***************************************************************************)
\* the place of an option's parameter after the filters
Rank(name) ==
    CASE name = "select" -> 1
      [] name = "order" -> 2
      [] name = "limit" -> 3
      [] name = "offset" -> 4
      [] OTHER -> 0

\* the entries of the Filter Set among the Query Options o, none when o has no
\* Filter Set
FilterEntries(o) == IF o.filters.t = "object" THEN o.filters.rows ELSE <<>>

\* after the first n parameters come only option parameters, each at most
\* once, in the order select, order, limit, offset
OptionsInFixedOrder(params, n) ==
    /\ Len(params) >= n
    /\ \A i \in (n + 1)..Len(params) : Rank(params[i][1]) > 0
    /\ \A i, j \in (n + 1)..Len(params) :
          i < j => Rank(params[i][1]) < Rank(params[j][1])

\* the options of the comment board's loadComments
BoardOptions ==
    [NoOptions EXCEPT !.order = JsObject("{}"), !.column = JsString("created_at"),
                      !.direction = JsString("desc"), !.limit = JsNumber(50)]

\* read('comments', BoardOptions) issues the GET of the example
BoardReadAsStated ==
    \A call \in BagToSet(calls') :
        (/\ Issued(call)
         /\ call.op = "read"
         /\ call.table = "comments"
         /\ call.args.options = BoardOptions) =>
            /\ call.req.method = "GET"
            /\ call.req.url = supabaseUrl
                   \o "/rest/v1/comments?order=created_at.desc&limit=50"

\* a read made with the table and options buildUrl was just called with
\* requests the URL that buildUrl returned
SameInputsSameUrl ==
    \A call \in BagToSet(calls') :
        (/\ Built
         /\ Issued(call)
         /\ call.op = "read"
         /\ call.table = settled.table
         /\ call.args.options = settled.args.options) =>
            call.req.url = settled.value.s

\* C23 as stated: the query string of a select lists the filters in insertion
\* order, then select, order, limit, offset; read('comments', {order:
\* {column: 'created_at', direction: 'desc'}, limit: 50}) issues GET
\* <baseUrl>/rest/v1/comments?order=created_at.desc&limit=50; two calls with
\* the same inputs build the same URL.
C23_ParametersInFixedOrder ==
    /\ [](BuiltSelect =>
             LET F == FilterEntries(GivenOptions)
                 params == ParseQuery(settled.value.s)
             IN /\ OptionsInFixedOrder(params, Len(F))
                /\ \A i \in 1..Len(F) : params[i] = EqParam(F[i]))
    /\ [][BoardReadAsStated /\ SameInputsSameUrl]_vars

\* C23 (amended): the query string of a select lists one parameter per
\* filter entry first (array-index keys in ascending numeric order, then the
\* other keys in insertion order), then select, order, limit, offset; the
\* comment board's read issues GET
\* <baseUrl>/rest/v1/comments?order=created_at.desc&limit=50; two calls with
\* the same inputs build the same URL.
C23_ParametersInEnumerationOrder ==
    /\ [](BuiltSelect =>
             LET F == FilterEntries(GivenOptions)
                 params == ParseQuery(settled.value.s)
                 Pos(k) == CHOOSE i \in 1..Len(F) : F[i][1] = k
             IN /\ OptionsInFixedOrder(params, Len(F))
                /\ \A i \in 1..Len(F) :
                      \E j \in 1..Len(F) : params[j] = EqParam(F[i])
                /\ \A i, j \in 1..Len(F) :
                      i < j =>
                         LET a == params[i][1]
                             b == params[j][1]
                         IN IF IsArrayIndex(b)
                            THEN IsArrayIndex(a) /\ StringToNumber(a) < StringToNumber(b)
                            ELSE IsArrayIndex(a) \/ Pos(a) < Pos(b))
    /\ [][BoardReadAsStated /\ SameInputsSameUrl]_vars

\* buildUrl was given the Filter Set {status: 'a b', 7: 1} with select, order,
\* limit and offset, and built the filters first and the options in their order
C23_Witness ==
    /\ BuiltSelect
    /\ GivenOptions.filters.rows = <<<<"status", JsString("a b")>>, <<"7", JsNumber(1)>>>>
    /\ QueryString(settled.value.s)
          = "7=eq.1&status=eq.a+b&select=id%2Cname&order=date.asc&limit=5&offset=10"

\* the comment board's read is in flight
C23_BoardReadIssued ==
    \E call \in InFlight :
        /\ call.op = "read"
        /\ call.table = "comments"
        /\ call.args.options = BoardOptions
        /\ call.req.url = supabaseUrl \o "/rest/v1/comments?order=created_at.desc&limit=50"

(***************************************************************************)
(* The API key in the headers                                              *)
(***************************************************************************)
\* C24: in every state reachable by any sequence of operations (setAuthToken
\* and credential resets made while a call is in flight included) the apikey
\* header equals the current API key; the API key changes only when
\* setCredentials sets it; and a signOut that returns leaves the bearer token
\* equal to the API key current when it returns, not to the key its request
\* was issued with or the key given at construction.
C24_ApikeyIsCurrentKey ==
    [][/\ headers["apikey"] = supabaseKey
       /\ headers'["apikey"] = supabaseKey'
       /\ supabaseKey' # supabaseKey =>
              (settled'.op = "setCredentials" /\ supabaseKey' = settled'.args.key)
       /\ (settled'.op = "signOut" /\ settled'.state = "fulfilled") =>
              headers'["Authorization"] = Bearer(supabaseKey')]_vars

\* a signOut issued under the key given at construction has returned after a
\* setCredentials replaced the key, and the bearer token is the new key
C24_Witness ==
    /\ settled.op = "signOut"
    /\ settled.state = "fulfilled"
    /\ settled.req.headers["apikey"] = BoardKey
    /\ supabaseKey # BoardKey
    /\ headers["apikey"] = supabaseKey
    /\ Authorization = Bearer(supabaseKey)

(***************************************************************************)
(* signOut with an explicit token                                          *)
(***************************************************************************)
\* call is a signOut that this step issues or moves on without finishing it
SignOutGoesOn(call) ==
    /\ call \in BagToSet(calls')
    /\ call.op = "signOut"
    /\ CopiesIn(call, calls') > CopiesIn(call, calls)

\* the signOut calls in flight that were given an explicit token
ExplicitSignOuts == {call \in InFlight : call.op = "signOut" /\ Truthy(call.args.accessToken)}

\* C25: signOut(accessToken) with an explicit token sends its logout request
\* with Authorization: Bearer <accessToken> and the other headers as stored,
\* and no step of a signOut that is still in flight changes the stored
\* headers; a CRUD request issued while such a logout request is in flight
\* carries the stored bearer token, hence the explicit token only when that
\* is the token already stored.
C25_ExplicitTokenNotStored ==
    [][/\ \A call \in BagToSet(calls') :
            SignOutGoesOn(call) =>
               /\ headers' = headers
               /\ (Issued(call) /\ Truthy(call.args.accessToken)) =>
                      call.req.headers =
                          [headers EXCEPT !["Authorization"] =
                               "Bearer " \o call.args.accessToken.s]
       /\ \A call \in BagToSet(calls') :
            (Issued(call) /\ call.op \in CrudOps /\ ExplicitSignOuts # {}) =>
               /\ call.req.headers["Authorization"] = Authorization
               /\ \A out \in ExplicitSignOuts :
                     call.req.headers["Authorization"] = Bearer(out.args.accessToken.s)
                         => Authorization = Bearer(out.args.accessToken.s)]_vars

\* signOut('token-B') is in flight with Bearer token-B while the client holds
\* the token of its sign-in, and a read in flight carries that stored token
C25_Witness ==
    /\ lastToken \in Tokens
    /\ Authorization = Bearer(lastToken)
    /\ \E out \in ExplicitSignOuts :
          /\ out.pc = "fetch"
          /\ out.req.headers["Authorization"] = Bearer(out.args.accessToken.s)
          /\ out.req.headers["Authorization"] # Authorization
          /\ \E call \in InFlight :
                /\ call.op = "read"
                /\ call.pc = "fetch"
                /\ call.req.headers["Authorization"] = Authorization

====
